---- MODULE Spec2Model ----
(***************************************************************************)
(* OpenLine core: the acceptance path of a frame.                          *)
(*                                                                         *)
(*   Digest Computer   src/openline/digest.py      compute_digest,         *)
(*                                                 holonomy_gap            *)
(*   Guard Engine      src/openline/guards.py      guard_check, tuned_cap  *)
(*   Wire schema       src/openline/schema.py      Edge, Digest, MorphOp,  *)
(*                                                 Frame (validators)      *)
(*   Frame Service     src/openline/openline/adapters/fastapi_app.py       *)
(*                                                 post_frame, _LAST_DIGEST*)
(*                                                                         *)
(* post_frame imports openline.schema, openline.digest and openline.guards;*)
(* digest.py and guards.py exist only beside src/openline/schema.py, so    *)
(* that schema (with its validators) is the Frame that post_frame parses.  *)
(*                                                                         *)
(* Numbers.  Node ids and stream ids are strings in the code and small     *)
(* naturals here (only equality and a fixed enumeration order are used).   *)
(* s_over_c and the holonomy gap are floats in the code and exact reduced  *)
(* fractions <<num, den>> here.  delta_scale and the scale caps are floats *)
(* in the code and integers in units of 0.001 here (0.03 is 30).           *)
(***************************************************************************)
EXTENDS Integers, Sequences, FiniteSets, TLC

VARIABLES
    store,      \* _LAST_DIGEST: stream id -> Option(Digest)
    req,        \* the post_frame requests in flight, one record per worker slot
    accepted,   \* history: per stream, the graph of the last frame post_frame accepted
    gcall,      \* a direct call of guard_check: its arguments
    gres,       \* ... and its result
    pfile,      \* data/params.json: Option([mtime, caps])
    pcache,     \* _PARAMS_CACHE
    now,        \* time.time(), in seconds
    flog,       \* the /frame shim: data/frames.log, one entry per line
    sres,       \* the /frame shim: the last request and its response
    din,        \* a direct call of a digest function or of an extractor: its arguments
    dout        \* ... and what it returned

vars == <<store, req, accepted, gcall, gres, pfile, pcache, now, flog, sres, din, dout>>

(***************************************************************************)
(* Bounds of the model.                                                    *)
(***************************************************************************)
MaxReq == 2         \* concurrent post_frame requests (worker threads)
MaxStreams == 2     \* stream ids
StartTime == 100    \* time.time() when the process starts, in seconds
MaxElapsed == 60    \* seconds of process life the tuned-cap runs cover
MaxWrites == 3      \* distinct modification times of data/params.json
MaxLog == 2         \* lines of data/frames.log
MaxEdges == 2       \* edges of a graph given to compute_digest
MaxSents == 3       \* sentences of a text given to build_frame
MaxShortSents == 4  \* sentences of a text given to build_frame_from_text, every kind
MaxLongSents == 9   \* ... and of the texts of marker-only sentences

Req == 1..MaxReq
StreamIds == 1..MaxStreams

(***************************************************************************)
(* Option values: None is the empty sequence, Some(x) is <<x>>.            *)
(***************************************************************************)
None == <<>>
Some(x) == <<x>>
IsSome(o) == o # <<>>
The(o) == o[1]

Abs(i) == IF i < 0 THEN -i ELSE i
Min2(a, b) == IF a < b THEN a ELSE b
SetMax(S) == CHOOSE m \in S : \A x \in S : x <= m
SetMin(S) == CHOOSE m \in S : \A x \in S : m <= x

RECURSIVE GCD(_, _)
GCD(a, b) == IF b = 0 THEN a ELSE GCD(b, a % b)

\* A float that is the quotient n/d of two small naturals, as a reduced fraction.
Frac(n, d) == LET g == GCD(n, d) IN IF g = 0 THEN <<0, 1>> ELSE <<n \div g, d \div g>>

(***************************************************************************)
(* Guard constants (guards.py).                                            *)
(***************************************************************************)
CYCLE_PLUS_CAP == 4
DELTA_HOL_CAP == 2
DELTA_SCALE_CAP_DEFAULT == 30
DEPTH_CYCLIC_CAP == 8

(***************************************************************************)
(* Wire values.                                                            *)
(***************************************************************************)
Nd(id, type, asset, pair) == [id |-> id, type |-> type, asset |-> asset, pair |-> pair]
Ed(src, dst, rel) == [src |-> src, dst |-> dst, rel |-> rel]
Dg(b0, c, x, s, d) ==
    [b0 |-> b0, cycle_plus |-> c, x_frontier |-> x, s_over_c |-> s, depth |-> d]
\* A morph: op, and the type of payload.node ("" when the payload has no node).
Mo(op, ntype) == [op |-> op, ntype |-> ntype]
\* Telemetry: delta_scale, delta_scale_tolerance (each None when the key is
\* absent), and delta_hol.
Tm(ds, tol) == [delta_scale |-> ds, tol |-> tol, delta_hol |-> <<0, 1>>]

(***************************************************************************)
(* Digest Computer: compute_digest (digest.py).                            *)
(***************************************************************************)
\* G = nx.DiGraph(): add_node for every node, add_edge for every edge.  add_edge
\* also adds missing endpoints, and a second edge between the same ordered pair
\* overwrites the rel of the first.
GNodes(nodes, edges) ==
    {nodes[i].id : i \in DOMAIN nodes}
        \cup {edges[i].src : i \in DOMAIN edges} \cup {edges[i].dst : i \in DOMAIN edges}

GPairs(edges) == {<<edges[i].src, edges[i].dst>> : i \in DOMAIN edges}

GRel(edges, p) ==
    LET hits == {i \in DOMAIN edges : <<edges[i].src, edges[i].dst>> = p}
    IN edges[SetMax(hits)].rel

RelPairs(edges, rel) == {p \in GPairs(edges) : GRel(edges, p) = rel}

RECURSIVE ReachFrom(_, _)
ReachFrom(S, P) ==
    LET nxt == S \cup {p[2] : p \in {q \in P : q[1] \in S}}
    IN IF nxt = S THEN S ELSE ReachFrom(nxt, P)

\* nx.number_weakly_connected_components
WeakComponents(V, P) ==
    LET und == P \cup {<<p[2], p[1]>> : p \in P}
    IN Cardinality({ReachFrom({v}, und) : v \in V})

\* nx.simple_cycles: every elementary cycle once (here: as the sequence of its
\* nodes that starts at its least node); a self-loop is a cycle of length 1.
SimpleCycles(V, P) ==
    UNION {{s \in [1..k -> V] :
                /\ \A i \in 1..k : s[1] <= s[i]
                /\ \A i, j \in 1..k : i # j => s[i] # s[j]
                /\ \A i \in 1..k : <<s[i], s[(i % k) + 1]>> \in P}
           : k \in 1..Cardinality(V)}

RECURSIVE LongestFrom(_, _)
LongestFrom(v, P) ==
    LET succ == {p[2] : p \in {q \in P : q[1] = v}}
    IN IF succ = {} THEN 0 ELSE 1 + SetMax({LongestFrom(w, P) : w \in succ})

\* nx.dag_longest_path_length
DagLongestPathLength(V, P) == IF V = {} THEN 0 ELSE SetMax({LongestFrom(v, P) : v \in V})

DepthOf(V, depPairs) ==
    LET D == {<<p[2], p[1]>> : p \in depPairs}
    IN IF D = {} THEN 0
       ELSE IF SimpleCycles(V, D) = {} THEN DagLongestPathLength(V, D)
       ELSE Min2(Cardinality(V) - 1, DEPTH_CYCLIC_CAP)

compute_digest(nodes, edges) ==
    LET V == GNodes(nodes, edges)
        sup == RelPairs(edges, "supports")
        x == Cardinality(RelPairs(edges, "contradicts"))
        s == Cardinality(sup)
    IN Dg(IF V = {} THEN 0 ELSE WeakComponents(V, GPairs(edges)),
          Cardinality(SimpleCycles(V, sup)),
          x,
          IF x = 0 THEN Frac(s, 1) ELSE Frac(s, x),
          DepthOf(V, RelPairs(edges, "depends_on")))

\* (variant of holonomy_gap: the b0 term without abs)
holonomy_gap_signed(pre, post) ==
    LET ints == (pre.b0 - post.b0) + Abs(pre.cycle_plus - post.cycle_plus)
                + Abs(pre.x_frontier - post.x_frontier) + Abs(pre.depth - post.depth)
        a == pre.s_over_c
        b == post.s_over_c
    IN Frac(ints * a[2] * b[2] + Abs(a[1] * b[2] - b[1] * a[2]), a[2] * b[2])

\* holonomy_gap on two Digest objects: the L1 distance, as a fraction.
holonomy_gap(pre, post) ==
    LET ints == Abs(pre.b0 - post.b0) + Abs(pre.cycle_plus - post.cycle_plus)
                + Abs(pre.x_frontier - post.x_frontier) + Abs(pre.depth - post.depth)
        a == pre.s_over_c
        b == post.s_over_c
    IN Frac(ints * a[2] * b[2] + Abs(a[1] * b[2] - b[1] * a[2]), a[2] * b[2])

FracGt(f, n) == f[1] > n * f[2]

\* holonomy_delta (src/adapters/frames/frame_builder.py) on two dict digests: a
\* dict is a function on the keys it has, a missing key reads 0.0.
DigestKeys == <<"b0", "cycle_plus", "x_frontier", "s_over_c", "depth">>

DictGet(d, k) ==
    IF k \in DOMAIN d THEN (IF k = "s_over_c" THEN d[k] ELSE <<d[k], 1>>) ELSE <<0, 1>>

FracAdd(f, g) == Frac(f[1] * g[2] + g[1] * f[2], f[2] * g[2])
FracAbsDiff(f, g) == Frac(Abs(f[1] * g[2] - g[1] * f[2]), f[2] * g[2])

RECURSIVE SumAbsDiff(_, _, _)
SumAbsDiff(prev, cur, i) ==
    IF i > Len(DigestKeys) THEN <<0, 1>>
    ELSE FracAdd(FracAbsDiff(DictGet(cur, DigestKeys[i]), DictGet(prev, DigestKeys[i])),
                 SumAbsDiff(prev, cur, i + 1))

\* (variant of holonomy_delta: "x_frontier" missing from keys)
holonomy_delta_frontier_skipped(prev_digest, cur_digest) ==
    LET full == SumAbsDiff(prev_digest, cur_digest, 1)
        xf == FracAbsDiff(DictGet(cur_digest, "x_frontier"), DictGet(prev_digest, "x_frontier"))
    IN Frac(full[1] * xf[2] - xf[1] * full[2], full[2] * xf[2])

holonomy_delta(prev_digest, cur_digest) == SumAbsDiff(prev_digest, cur_digest, 1)

(***************************************************************************)
(* The text extractor build_frame (src/adapters/frame_builder.py), lines   *)
(* 93-112: nodes, edges and digest.  A text is the sequence of its         *)
(* sentences, a sentence is [sup, att, asm]: does the SUPPORT, ATTACK,     *)
(* ASSUME pattern match it.  The id of the node of sentence i is i (the    *)
(* code's id is a type letter followed by i).  The float telemetry of      *)
(* lines 113-134 is not modelled.                                          *)
(***************************************************************************)
\* classify_sentence
classify_sentence(sent) ==
    IF sent.asm THEN "Assumption" ELSE IF sent.sup THEN "Evidence" ELSE "Claim"

\* lines 96-99
BuildNodes(sents) == [i \in DOMAIN sents |-> Nd(i, classify_sentence(sents[i]), "", "")]

\* lines 100-105: the edge of sentence i, if any
RECURSIVE BuildEdges(_, _)
BuildEdges(sents, i) ==
    IF i > Len(sents) THEN <<>>
    ELSE LET e == IF i = 1 THEN <<>>
                  ELSE IF sents[i].sup THEN <<Ed(i - 1, i, "supports")>>
                  ELSE IF sents[i].att THEN <<Ed(i, i - 1, "contradicts")>>
                  ELSE IF sents[i].asm THEN <<Ed(i, i, "depends_on")>>
                  ELSE <<>>
         IN e \o BuildEdges(sents, i + 1)

\* g[u] of count_cycles and max_depth: the successors of u, in edge order
RECURSIVE SuccList(_, _, _)
SuccList(edges, u, k) ==
    IF k > Len(edges) THEN <<>>
    ELSE (IF edges[k].src = u THEN <<edges[k].dst>> ELSE <<>>) \o SuccList(edges, u, k + 1)

\* count_cycles: a three-colour depth-first search over all the edges, counting
\* the edges that lead to a node in progress.  st = [color, cycles]
RECURSIVE CycDfs(_, _, _)
RECURSIVE CycDfsList(_, _, _, _)
CycDfs(edges, u, st) ==
    LET st1 == [st EXCEPT !.color[u] = 1]
        st2 == CycDfsList(edges, SuccList(edges, u, 1), 1, st1)
    IN [st2 EXCEPT !.color[u] = 2]

CycDfsList(edges, succs, k, st) ==
    IF k > Len(succs) THEN st
    ELSE LET v == succs[k]
             st1 == IF st.color[v] = 0 THEN CycDfs(edges, v, st)
                    ELSE IF st.color[v] = 1 THEN [st EXCEPT !.cycles = @ + 1]
                    ELSE st
         IN CycDfsList(edges, succs, k + 1, st1)

RECURSIVE CycRoots(_, _, _, _)
CycRoots(nodes, edges, i, st) ==
    IF i > Len(nodes) THEN st
    ELSE CycRoots(nodes, edges, i + 1,
                  IF st.color[nodes[i].id] = 0 THEN CycDfs(edges, nodes[i].id, st) ELSE st)

count_cycles(nodes, edges) ==
    CycRoots(nodes, edges, 1, [color |-> [v \in GNodes(nodes, edges) |-> 0], cycles |-> 0]).cycles

\* max_depth: the depth-first walk of lines 76-80 keeps no visited set, so on a
\* cycle that a root reaches it recurses until Python raises RecursionError
\* (None here); else 1 + the longest path from a root, 0 without nodes.
max_depth(nodes, edges) ==
    LET P == GPairs(edges)
        ids == {nodes[i].id : i \in DOMAIN nodes}
        noIn == {v \in ids : \A p \in P : p[2] # v}
        roots == IF noIn # {} THEN noIn ELSE IF nodes # <<>> THEN {nodes[1].id} ELSE {}
        reached == ReachFrom(roots, P)
        onCycle == {v \in reached : v \in ReachFrom({p[2] : p \in {q \in P : q[1] = v}}, P)}
    IN IF onCycle # {} THEN None
       ELSE IF roots = {} THEN Some(0)
       ELSE Some(1 + SetMax({LongestFrom(r, P) : r \in roots}))

\* lines 106-112: the digest of build_frame, or None when max_depth raises
build_frame_digest(nodes, edges) ==
    LET S == Cardinality({i \in DOMAIN edges : edges[i].rel = "supports"})
        X == Cardinality({i \in DOMAIN edges : edges[i].rel = "contradicts"})
        C == count_cycles(nodes, edges)
        D == max_depth(nodes, edges)
    IN IF D = None THEN None
       ELSE Some(Dg(1, C, X, Frac(S, IF X > 1 THEN X ELSE 1), The(D)))

\* build_frame(text, prev_digest): nodes, edges and digest of the frame
build_frame(sents) ==
    LET nodes == BuildNodes(sents)
        edges == BuildEdges(sents, 1)
    IN [nodes |-> nodes, edges |-> edges, digest |-> build_frame_digest(nodes, edges)]

(***************************************************************************)
(* The text adapter build_frame_from_text                                  *)
(* (src/adapters/frames/frame_builder.py).  A text is the sequence of its  *)
(* sentences (sent_split), a sentence is [contra, support, cite]: does it  *)
(* contain a CONTRA, SUPPORT, CITE token.  A node is [id, type, label]:    *)
(* id is the number nid_counter gave it (the code puts a type letter in    *)
(* front), label is the index of the sentence that the code stores as the  *)
(* label.  Of the telemetry, delta_hol and conf are modelled; the others   *)
(* are floats that no digest field and no node or edge depends on.         *)
(***************************************************************************)
TextNode(id, type, label) == [id |-> id, type |-> type, label |-> label]

\* lines 73-74: the caps
SENTS_CAP == 8
max_supports == 4
max_contras == 2

\* (variant of max_sents: every sentence is examined)
max_sents_uncapped(sents) == Len(sents)

\* line 73
max_sents(sents) == Min2(Len(sents), SENTS_CAP)

\* (variant of the loop body: a Source node only for a sentence that gave no
\* Evidence node, "elif has_cite")
ExtractStepCiteExclusive(sents, i, st) ==
    LET s == sents[i]
    IN IF s.contra /\ st.contras_used < max_contras
         THEN [st EXCEPT !.nodes = Append(@, TextNode(st.nid, "Evidence", i)),
                         !.edges = Append(@, Ed(st.nid, st.last_claim, "contradicts")),
                         !.nid = @ + 1, !.contras_used = @ + 1]
       ELSE IF (s.support \/ ~s.contra) /\ st.supports_used < max_supports
         THEN [st EXCEPT !.nodes = Append(@, TextNode(st.nid, "Evidence", i)),
                         !.edges = Append(@, Ed(st.nid, st.last_claim, "supports")),
                         !.nid = @ + 1, !.supports_used = @ + 1]
       ELSE IF s.cite
         THEN [st EXCEPT !.nodes = Append(@, TextNode(st.nid, "Source", i)),
                         !.edges = Append(@, Ed(st.nodes[Len(st.nodes)].id, st.nid, "cites")),
                         !.nid = @ + 1]
       ELSE st

\* lines 84-106: the loop body on sentence i.
\* st = [nodes, edges, nid (nid_counter), last_claim, supports_used, contras_used]
ExtractStep(sents, i, st) ==
    LET s == sents[i]
        st1 == IF s.contra /\ st.contras_used < max_contras
                 THEN [st EXCEPT !.nodes = Append(@, TextNode(st.nid, "Evidence", i)),
                                 !.edges = Append(@, Ed(st.nid, st.last_claim, "contradicts")),
                                 !.nid = @ + 1, !.contras_used = @ + 1]
               ELSE IF (s.support \/ ~s.contra) /\ st.supports_used < max_supports
                 THEN [st EXCEPT !.nodes = Append(@, TextNode(st.nid, "Evidence", i)),
                                 !.edges = Append(@, Ed(st.nid, st.last_claim, "supports")),
                                 !.nid = @ + 1, !.supports_used = @ + 1]
               ELSE st
    \* line 105: after the append of the Source node, nodes[-2] is the last
    \* node before it (there is always one, the first Claim)
    IN IF s.cite
         THEN [st1 EXCEPT !.nodes = Append(@, TextNode(st1.nid, "Source", i)),
                          !.edges = Append(@, Ed(st1.nodes[Len(st1.nodes)].id, st1.nid, "cites")),
                          !.nid = @ + 1]
         ELSE st1

\* line 83: for s in sents[1:max_sents]
RECURSIVE ExtractLoop(_, _, _)
ExtractLoop(sents, i, st) ==
    IF i > max_sents(sents) THEN st
    ELSE ExtractLoop(sents, i + 1, ExtractStep(sents, i, st))

\* lines 108-111: coverage * link_syntax, capped at 1
ExtractConf(sents, nodes, edges) ==
    LET n == Len(nodes) + Len(edges)
        d == 1 + Len(sents)
        coverage == IF n >= d THEN <<1, 1>> ELSE Frac(n, d)
        linked == \E k \in DOMAIN nodes : sents[nodes[k].label].cite
    IN IF linked THEN coverage ELSE Frac(coverage[1], 2 * coverage[2])

\* _extract_nodes_edges: [nodes, edges, conf]
_extract_nodes_edges(sents) ==
    IF sents = <<>> THEN [nodes |-> <<>>, edges |-> <<>>, conf |-> <<0, 1>>]
    ELSE LET st == ExtractLoop(sents, 2,
                       [nodes |-> <<TextNode(1, "Claim", 1)>>, edges |-> <<>>, nid |-> 2,
                        last_claim |-> 1, supports_used |-> 0, contras_used |-> 0])
         IN [nodes |-> st.nodes, edges |-> st.edges,
             conf |-> ExtractConf(sents, st.nodes, st.edges)]

\* _components: the undirected components that hold a node of the list
_components(nodes, edges) ==
    LET P == GPairs(edges)
        und == P \cup {<<p[2], p[1]>> : p \in P}
    IN Cardinality({ReachFrom({nodes[i].id}, und) : i \in DOMAIN nodes})

\* _cycle_plus: for every node a of the list, the walks a -> b -> c over
\* supports edges with a supports edge from c back to a
_cycle_plus(nodes, edges) ==
    LET sup == {k \in DOMAIN edges : edges[k].rel = "supports"}
    IN Cardinality({t \in (DOMAIN nodes) \X sup \X sup :
                       /\ edges[t[2]].src = nodes[t[1]].id
                       /\ edges[t[3]].src = edges[t[2]].dst
                       /\ \E k \in sup : edges[k].src = edges[t[3]].dst
                                         /\ edges[k].dst = nodes[t[1]].id})

\* dfs of _longest_path: every call works on its own copy of seen, so every
\* simple path is walked; the result is the most edges on one
RECURSIVE LongestSimple(_, _, _)
LongestSimple(u, seen, P) ==
    LET seen1 == seen \cup {u}
        succ == {p[2] : p \in {q \in P : q[1] = u}} \ seen1
    IN SetMax({Cardinality(seen1) - 1} \cup {LongestSimple(v, seen1, P) : v \in succ})

_longest_path(nodes, edges) ==
    LET P == {<<edges[k].src, edges[k].dst>> :
                 k \in {j \in DOMAIN edges :
                           edges[j].rel \in {"supports", "contradicts", "depends_on"}}}
    IN SetMax({0} \cup {LongestSimple(nodes[i].id, {}, P) : i \in DOMAIN nodes})

\* _counts: <<S, K, C>>; line 169 hands _cycle_plus an empty node list
_counts(edges) ==
    <<Cardinality({k \in DOMAIN edges : edges[k].rel = "supports"}),
      Cardinality({k \in DOMAIN edges : edges[k].rel = "contradicts"}),
      _cycle_plus(<<>>, SelectSeq(edges, LAMBDA e : e.rel = "supports"))>>

\* build_frame_from_text(text, stream_id, t_logical, prev_digest): nodes, edges,
\* digest, telem.delta_hol and telem.conf.  prev_digest is None or a dict;
\* "prev_digest or {}" is {} for both None and {}.  round(.., 4) and
\* round(.., 3) leave the fractions of the model as they are up to 0.00005.
build_frame_from_text(sents, prev_digest) ==
    LET x == _extract_nodes_edges(sents)
        cnt == _counts(x.edges)
        digest == Dg(_components(x.nodes, x.edges), cnt[3], cnt[2],
                     Frac(cnt[1], IF cnt[2] > 0 THEN cnt[2] ELSE 1),
                     _longest_path(x.nodes, x.edges))
    IN [nodes |-> x.nodes, edges |-> x.edges, digest |-> digest,
        delta_hol |-> holonomy_delta(IF prev_digest = None THEN <<>> ELSE The(prev_digest),
                                     digest),
        conf |-> x.conf]

(***************************************************************************)
(* Tuned caps: _load_params and tuned_cap (guards.py).                     *)
(* A params file is [mtime, json, caps]: json is "object" (a JSON object   *)
(* whose scale_caps is the nested mapping caps), "badcaps" (a JSON object  *)
(* whose scale_caps is not a mapping), "notobject" or "invalid".  caps is  *)
(* a set of <<asset, pair, cap>>.                                          *)
(***************************************************************************)
PARAMS_TTL == 60

NoCaps == [shape |-> "ok", caps |-> {}]
InitialCache == [ts |-> 0, mtime |-> None, data |-> NoCaps]

ParseParams(file) ==
    CASE file.json = "object" -> [shape |-> "ok", caps |-> file.caps]
      [] file.json = "badcaps" -> [shape |-> "bad", caps |-> {}]
      [] OTHER -> NoCaps

\* (variant of _load_params: the cache is reused on the TTL alone)
LoadParamsTtlOnly(t, file, cache) ==
    LET exists == IsSome(file)
        mtime == IF exists THEN Some(The(file).mtime) ELSE None
    IN IF t - cache.ts < PARAMS_TTL
         THEN [data |-> cache.data, cache |-> cache]
         ELSE LET data == IF exists THEN ParseParams(The(file)) ELSE NoCaps
              IN [data |-> data, cache |-> [ts |-> t, mtime |-> mtime, data |-> data]]

\* _load_params: the data it returns and the cache it leaves.
LoadParams(t, file, cache) ==
    LET exists == IsSome(file)
        mtime == IF exists THEN Some(The(file).mtime) ELSE None
    IN IF (t - cache.ts < PARAMS_TTL) /\ cache.mtime = mtime
         THEN [data |-> cache.data, cache |-> cache]
         ELSE LET data == IF exists THEN ParseParams(The(file)) ELSE NoCaps
              IN [data |-> data, cache |-> [ts |-> t, mtime |-> mtime, data |-> data]]

\* str.lower() and str.strip() on the strings the model uses.
Lower(s) == CASE s = "EQUITY" -> "equity" [] s = "FX" -> "fx" [] OTHER -> s
Strip(s) == CASE s = " hour<->day " -> "hour<->day" [] OTHER -> s

\* tuned_cap: Some(cap), or None when the lookup raises AttributeError
\* (scale_caps is not a mapping).
tuned_cap(data, asset, pair, default_cap) ==
    IF data.shape = "bad" THEN None
    ELSE LET key == Lower(IF asset = "" THEN "default" ELSE asset)
             hits == {c \in data.caps : c[1] = key /\ c[2] = pair}
         IN IF hits = {} THEN Some(default_cap) ELSE Some((CHOOSE c \in hits : TRUE)[3])

ASSET_CAPS(asset) ==
    CASE asset = "equity" -> 30
      [] asset = "fx" -> 15
      [] asset = "crypto" -> 120
      [] asset = "commodity" -> 40
      [] asset = "bond" -> 10
      [] OTHER -> DELTA_SCALE_CAP_DEFAULT

\* pair_caps.get(pair, base_cap): base_cap * 1.0 / 1.2 / 1.6
PairCap(pair, base_cap) ==
    CASE pair = "min<->hour" -> base_cap
      [] pair = "hour<->day" -> (base_cap * 12) \div 10
      [] pair = "day<->week" -> (base_cap * 16) \div 10
      [] OTHER -> base_cap

(***************************************************************************)
(* Guard Engine: guard_check (guards.py).                                  *)
(* A frame handed to guard_check is either a validated Frame model         *)
(* (rep = "model": nodes, edges, morphs, telem and digest are pydantic     *)
(* objects, which have attributes and no .get) or a plain mapping          *)
(* (rep = "dict": they are dicts; its digest, when present, is a dict or a *)
(* Digest object, drep).                                                   *)
(***************************************************************************)
\* (variants of _adds_resolver: Counter only; any added node)
_adds_resolver_counter_only(morphs) ==
    \E i \in DOMAIN morphs : morphs[i].op = "add_node" /\ morphs[i].ntype = "Counter"

_adds_resolver_any_node(morphs) ==
    \E i \in DOMAIN morphs : morphs[i].op = "add_node" /\ morphs[i].ntype # ""

\* _adds_resolver on a list of dict morphs
\* (node is m["node"] or m["payload"]["node"]; ntype is its "type")
_adds_resolver(morphs) ==
    \E i \in DOMAIN morphs :
        morphs[i].op = "add_node" /\ morphs[i].ntype \in {"Assumption", "Counter"}

HasDeletes(morphs) == \E i \in DOMAIN morphs : morphs[i].op \in {"del_node", "del_edge"}

\* (variant of _has_explanation: the nodes are not looked at)
_has_explanation_no_nodes(frame) ==
    \/ \E i \in DOMAIN frame.edges : frame.edges[i].rel \in {"contradicts", "supports"}
    \/ IsSome(frame.telem.tol) /\ The(frame.telem.tol) >= 0

\* _has_explanation on a dict frame
_has_explanation(frame) ==
    \/ \E i \in DOMAIN frame.nodes : frame.nodes[i].type \in {"Assumption", "Counter"}
    \/ \E i \in DOMAIN frame.edges : frame.edges[i].rel \in {"contradicts", "supports"}
    \/ IsSome(frame.telem.tol) /\ The(frame.telem.tol) >= 0

\* attrs of the first Claim node: <<asset, pair>> as guard_check normalises them
ClaimAttrs(nodes) ==
    LET claims == {i \in DOMAIN nodes : nodes[i].type = "Claim"}
    IN IF claims = {} THEN <<"default", "">>
       ELSE LET n == nodes[SetMin(claims)]
            IN <<Lower(IF n.asset = "" THEN "default" ELSE n.asset), Strip(n.pair)>>

\* Each check alone: "pass", "fail" (it raises its ValueError) or "crash" (its
\* code raises AttributeError: .get on a pydantic object).

\* (variant of the cycle cap: >= for >)
CycleCheckAtCap(frame) ==
    IF The(frame.digest).cycle_plus >= CYCLE_PLUS_CAP THEN "fail" ELSE "pass"

\* 1) Cycle cap
CycleCheck(frame) ==
    IF The(frame.digest).cycle_plus > CYCLE_PLUS_CAP THEN "fail" ELSE "pass"

\* (variant of the frontier check: the resolver test without its "not")
FrontierCheckResolverInverted(frame, prev) ==
    IF prev = None \/ ~(The(frame.digest).x_frontier < The(prev).x_frontier) THEN "pass"
    ELSE IF frame.rep = "model"
         THEN (IF frame.morphs = <<>> THEN "pass" ELSE "crash")
    ELSE IF HasDeletes(frame.morphs) /\ _adds_resolver(frame.morphs) THEN "fail"
    ELSE "pass"

\* 2) Frontier deletion
FrontierCheck(frame, prev) ==
    IF prev = None \/ ~(The(frame.digest).x_frontier < The(prev).x_frontier) THEN "pass"
    ELSE IF frame.rep = "model"
         THEN (IF frame.morphs = <<>> THEN "pass" ELSE "crash")
    ELSE IF HasDeletes(frame.morphs) /\ ~_adds_resolver(frame.morphs) THEN "fail"
    ELSE "pass"

\* delta_h of check 3: holonomy_gap reads attributes, so it raises on a dict
\* digest and the guard then takes 0.0
GuardDeltaH(frame, prev, prep) ==
    IF frame.drep = "model" /\ prep = "model"
      THEN holonomy_gap(The(prev), The(frame.digest))
      ELSE <<0, 1>>

\* (variant of the holonomy check: >= for >)
HolonomyCheckAtCap(frame, prev, prep) ==
    IF prev = None
         \/ ~(GuardDeltaH(frame, prev, prep)[1] >= DELTA_HOL_CAP * GuardDeltaH(frame, prev, prep)[2])
      THEN "pass"
    ELSE IF frame.rep = "model"
         THEN (IF frame.morphs = <<>> THEN "fail" ELSE "crash")
    ELSE IF _adds_resolver(frame.morphs) THEN "pass"
    ELSE "fail"

\* 3) Holonomy spike
HolonomyCheck(frame, prev, prep) ==
    IF prev = None \/ ~FracGt(GuardDeltaH(frame, prev, prep), DELTA_HOL_CAP) THEN "pass"
    ELSE IF frame.rep = "model"
         THEN (IF frame.morphs = <<>> THEN "fail" ELSE "crash")
    ELSE IF _adds_resolver(frame.morphs) THEN "pass"
    ELSE "fail"

DeltaScale(frame) == IF IsSome(frame.telem.delta_scale) THEN The(frame.telem.delta_scale) ELSE 0

\* cap_eff of check 4, as an Option (None: tuned_cap raised)
CapEff(frame, data) ==
    LET a == ClaimAttrs(frame.nodes)
    IN tuned_cap(data, a[1], a[2], PairCap(a[2], ASSET_CAPS(a[1])))

\* 4) Delta_scale cap
ScaleCheck(frame, data) ==
    IF frame.rep = "model" THEN "crash"
    ELSE LET cap == CapEff(frame, data)
             ds == DeltaScale(frame)
         IN IF cap = None THEN "crash"
            ELSE IF ds # 0 /\ ds > The(cap) /\ ~_has_explanation(frame) THEN "fail"
            ELSE "pass"

Verdict(kind, cap, val) == [kind |-> kind, cap |-> cap, val |-> val]
Passed == Verdict("ok", 0, <<0, 1>>)
Crashed == Verdict("AttributeError", 0, <<0, 1>>)

\* Does guard_check reach tuned_cap (and so _load_params)?
GuardLoadsParams(frame, prev, prep) ==
    /\ frame.rep = "dict"
    /\ IsSome(frame.digest)
    /\ CycleCheck(frame) = "pass"
    /\ FrontierCheck(frame, prev) = "pass"
    /\ HolonomyCheck(frame, prev, prep) = "pass"

\* (variant of guard_check: the frontier check before the cycle cap)
guard_check_frontier_first(frame, prev, prep, data) ==
    IF frame.digest = None THEN Verdict("digest_required", 0, <<0, 1>>)
    ELSE IF FrontierCheck(frame, prev) # "pass"
      THEN (IF FrontierCheck(frame, prev) = "fail"
              THEN Verdict("frontier", 0, <<0, 1>>) ELSE Crashed)
    ELSE IF CycleCheck(frame) # "pass"
      THEN Verdict("cycle", CYCLE_PLUS_CAP, <<The(frame.digest).cycle_plus, 1>>)
    ELSE IF HolonomyCheck(frame, prev, prep) # "pass"
      THEN (IF HolonomyCheck(frame, prev, prep) = "fail"
              THEN Verdict("holonomy", DELTA_HOL_CAP, GuardDeltaH(frame, prev, prep))
              ELSE Crashed)
    ELSE IF ScaleCheck(frame, data) # "pass"
      THEN (IF ScaleCheck(frame, data) = "fail"
              THEN Verdict("scale", The(CapEff(frame, data)), <<DeltaScale(frame), 1>>)
              ELSE Crashed)
    ELSE Passed

\* guard_check: "ok" when it returns, else what it raises.  data is what
\* _load_params returns if check 4 is reached.
guard_check(frame, prev, prep, data) ==
    IF frame.digest = None THEN Verdict("digest_required", 0, <<0, 1>>)
    ELSE IF CycleCheck(frame) # "pass"
      THEN Verdict("cycle", CYCLE_PLUS_CAP, <<The(frame.digest).cycle_plus, 1>>)
    ELSE IF FrontierCheck(frame, prev) # "pass"
      THEN (IF FrontierCheck(frame, prev) = "fail"
              THEN Verdict("frontier", 0, <<0, 1>>) ELSE Crashed)
    ELSE IF HolonomyCheck(frame, prev, prep) # "pass"
      THEN (IF HolonomyCheck(frame, prev, prep) = "fail"
              THEN Verdict("holonomy", DELTA_HOL_CAP, GuardDeltaH(frame, prev, prep))
              ELSE Crashed)
    ELSE IF ScaleCheck(frame, data) # "pass"
      THEN (IF ScaleCheck(frame, data) = "fail"
              THEN Verdict("scale", The(CapEff(frame, data)), <<DeltaScale(frame), 1>>)
              ELSE Crashed)
    ELSE Passed

(***************************************************************************)
(* Wire schema: what parsing a request body into a Frame checks            *)
(* (schema.py).  FastAPI answers 422 when it fails and does not call       *)
(* post_frame.                                                             *)
(***************************************************************************)
\* Edge._no_self_loop
NoSelfLoop(edges) == \A i \in DOMAIN edges : edges[i].src # edges[i].dst

\* Frame._unique_node_ids
UniqueNodeIds(nodes) == \A i, j \in DOMAIN nodes : i # j => nodes[i].id # nodes[j].id

\* Frame._edges_reference_existing_nodes
EdgesReferenceNodes(nodes, edges) ==
    \A i \in DOMAIN edges :
        /\ edges[i].src \in {nodes[k].id : k \in DOMAIN nodes}
        /\ edges[i].dst \in {nodes[k].id : k \in DOMAIN nodes}

\* Digest: every field has ge=0
ValidDigest(d) ==
    /\ d.b0 >= 0 /\ d.cycle_plus >= 0 /\ d.x_frontier >= 0 /\ d.depth >= 0
    /\ d.s_over_c[1] >= 0

\* MorphOp._validate_payload, for the payload key the model holds (node)
ValidMorphs(morphs) == \A i \in DOMAIN morphs : morphs[i].op = "add_node" => morphs[i].ntype # ""

ValidFrameLoopsAllowed(f) ==
    /\ UniqueNodeIds(f.nodes)
    /\ EdgesReferenceNodes(f.nodes, f.edges)
    /\ ValidDigest(f.digest)
    /\ ValidMorphs(f.morphs)

ValidFrame(f) ==
    /\ NoSelfLoop(f.edges)
    /\ UniqueNodeIds(f.nodes)
    /\ EdgesReferenceNodes(f.nodes, f.edges)
    /\ ValidDigest(f.digest)
    /\ ValidMorphs(f.morphs)

(***************************************************************************)
(* Frame Service: post_frame (fastapi_app.py).  It is a plain def, which   *)
(* FastAPI runs on a worker thread per request: requests interleave        *)
(* between the lookup of line 26 and the commit of line 38.                *)
(***************************************************************************)
\* The Frame object guard_check gets: line 29 has replaced its digest.
GuardFrameClientDigest(f, d_now) ==
    [rep |-> "model", nodes |-> f.nodes, edges |-> f.edges, digest |-> Some(f.digest),
     drep |-> "model", morphs |-> f.morphs, telem |-> f.telem]

GuardFrame(f, d_now) ==
    [rep |-> "model", nodes |-> f.nodes, edges |-> f.edges, digest |-> Some(d_now),
     drep |-> "model", morphs |-> f.morphs, telem |-> f.telem]

\* HTTP status of lines 32-43: ValueError is answered 422, any other exception
\* leaves post_frame and is answered 500
StatusOf(verdict) ==
    CASE verdict.kind = "ok" -> 200
      [] verdict.kind = "AttributeError" -> 500
      [] OTHER -> 422

\* _LAST_DIGEST after lines 32-38: line 38 runs only if guard_check returned
StoreAfterAlways(st, sid, d_now, verdict) == [st EXCEPT ![sid] = Some(d_now)]

StoreAfterUnlessValueError(st, sid, d_now, verdict) ==
    IF StatusOf(verdict) # 422 THEN [st EXCEPT ![sid] = Some(d_now)] ELSE st

\* (variant of the commit: one slot for every stream, written whatever the
\* verdict)
StoreAfterSharedSlot(st, sid, d_now, verdict) == [s \in DOMAIN st |-> Some(d_now)]

StoreAfter(st, sid, d_now, verdict) ==
    IF verdict.kind = "ok" THEN [st EXCEPT ![sid] = Some(d_now)] ELSE st

\* telem.delta_hol of line 41
ReplyDeltaHol(d_prev, d_now) ==
    IF IsSome(d_prev) THEN holonomy_gap(The(d_prev), d_now) ELSE <<0, 1>>

IdleReq ==
    [pc |-> "idle", frame |-> None, d_now |-> None, d_prev |-> None, seen |-> None,
     status |-> 0, detail |-> "", reply |-> None, wrote |-> None]

\* The frames clients send.
N1 == Nd(1, "Claim", "equity", "hour<->day")
N2 == Nd(2, "Evidence", "", "")
N3 == Nd(3, "Evidence", "", "")

ServiceGraphs ==
    { [nodes |-> <<N1, N2>>, edges |-> <<Ed(2, 1, "contradicts")>>],
      [nodes |-> <<N1, N2, N3>>,
       edges |-> <<Ed(1, 2, "supports"), Ed(2, 1, "supports"), Ed(1, 3, "supports"),
                   Ed(3, 1, "supports"), Ed(2, 3, "supports"), Ed(3, 2, "supports")>>],
      [nodes |-> <<N1, Nd(1, "Evidence", "", "")>>, edges |-> <<>>],
      [nodes |-> <<N1, N2>>, edges |-> <<Ed(2, 3, "supports")>>],
      [nodes |-> <<N1>>, edges |-> <<Ed(1, 1, "supports")>>] }

ClientDigests ==
    { Dg(1, 0, 0, <<0, 1>>, 0), Dg(1, 9, 0, <<0, 1>>, 0), Dg(0 - 1, 0, 0, <<0, 1>>, 0) }

ServiceFrames ==
    { [stream_id |-> s, nodes |-> g.nodes, edges |-> g.edges, digest |-> d,
       morphs |-> <<>>, telem |-> Tm(Some(150), None)]
      : s \in StreamIds, g \in ServiceGraphs, d \in ClientDigests }

NoCall == [pc |-> "none"]
NoShimReply == [pc |-> "none"]
NoInput == [kind |-> "none"]
NoOutput == [kind |-> "none"]
NoResult == Verdict("none", 0, <<0, 1>>)

Init ==
    /\ store = [s \in StreamIds |-> None]
    /\ req = [r \in Req |-> IdleReq]
    /\ accepted = [s \in StreamIds |-> None]
    /\ gcall = NoCall
    /\ gres = NoResult
    /\ pfile = None
    /\ pcache = InitialCache
    /\ now = StartTime
    /\ flog = <<>>
    /\ sres = NoShimReply
    /\ din = NoInput
    /\ dout = NoOutput

\* The request arrives: parsing (422 if the body is no valid Frame), then
\* lines 25-26.
PostFrameReceive(r, f) ==
    /\ req[r].pc = "idle"
    /\ IF ~ValidFrame(f)
         THEN req' = [req EXCEPT ![r] = [IdleReq EXCEPT !.pc = "done", !.frame = Some(f),
                                                       !.status = 422, !.detail = "shape"]]
         ELSE req' = [req EXCEPT ![r] = [IdleReq EXCEPT
                          !.pc = "read", !.frame = Some(f),
                          !.d_now = Some(compute_digest(f.nodes, f.edges)),
                          !.d_prev = store[f.stream_id]]]
    /\ UNCHANGED <<din, dout, flog, sres, store, accepted, gcall, gres, pfile, pcache, now>>

\* Lines 29-43.  guard_check on a Frame object raises before it reaches
\* tuned_cap, so _PARAMS_CACHE is not touched.
PostFrameFinish(r) ==
    /\ req[r].pc = "read"
    /\ LET f == The(req[r].frame)
           d_now == The(req[r].d_now)
           gf == GuardFrame(f, d_now)
           verdict == guard_check(gf, req[r].d_prev, "model", pcache.data)
           st == StoreAfter(store, f.stream_id, d_now, verdict)
           ok == StatusOf(verdict) = 200
       IN /\ store' = st
          /\ req' = [req EXCEPT ![r] = [@ EXCEPT
                        !.pc = "done", !.seen = gf.digest,
                        !.status = StatusOf(verdict), !.detail = verdict.kind,
                        !.wrote = IF st # store THEN st[f.stream_id] ELSE None,
                        !.reply = IF ok THEN Some([digest |-> d_now,
                                                   delta_hol |-> ReplyDeltaHol(req[r].d_prev, d_now)])
                                  ELSE None]]
          /\ accepted' = IF ok THEN [accepted EXCEPT ![f.stream_id] =
                                        Some([nodes |-> f.nodes, edges |-> f.edges])]
                         ELSE accepted
    /\ UNCHANGED <<din, dout, flog, sres, gcall, gres, pfile, pcache, now>>

\* The worker thread is free for the next request.
Recycle(r) ==
    /\ req[r].pc = "done"
    /\ req' = [req EXCEPT ![r] = IdleReq]
    /\ UNCHANGED <<din, dout, flog, sres, store, accepted, gcall, gres, pfile, pcache, now>>

Next ==
    \/ \E r \in Req, f \in ServiceFrames : PostFrameReceive(r, f)
    \/ \E r \in Req : PostFrameFinish(r)
    \/ \E r \in Req : Recycle(r)

Spec == Init /\ [][Next]_vars

(***************************************************************************)
(* guard_check called directly (as scripts/test_tuned_cap.py calls it),    *)
(* once, on arguments drawn from the sets below.                           *)
(***************************************************************************)
GuardDigests ==
    { Dg(1, 0, 0, <<1, 1>>, 0), Dg(1, 0, 1, <<1, 1>>, 0), Dg(1, 4, 0, <<4, 1>>, 0),
      Dg(1, 5, 0, <<6, 1>>, 0), Dg(1, 5, 1, <<6, 1>>, 0) }

GuardPrevs ==
    { Dg(1, 0, 0, <<1, 1>>, 0), Dg(1, 0, 1, <<1, 1>>, 0), Dg(2, 0, 3, <<1, 3>>, 1),
      Dg(3, 0, 0, <<1, 1>>, 0), Dg(4, 0, 0, <<1, 1>>, 0) }

MorphBatches ==
    { <<>>,
      <<Mo("del_edge", "")>>,
      <<Mo("del_edge", ""), Mo("add_node", "Assumption")>>,
      <<Mo("add_node", "Counter")>>,
      <<Mo("del_node", ""), Mo("add_node", "Evidence")>>,
      <<Mo("add_edge", "")>> }

GuardTelems ==
    { Tm(None, None), Tm(Some(36), None), Tm(Some(150), None), Tm(Some(150), Some(0)),
      Tm(Some(150), Some(0 - 1)) }

GuardNodeLists ==
    { <<>>, <<N1>>, <<Nd(1, "Claim", "EQUITY", " hour<->day "), Nd(2, "Counter", "", "")>>,
      <<N1, Nd(2, "Counter", "", "")>>, <<Nd(1, "Claim", "fx", "day<->week")>> }

GuardEdgeLists == { <<>>, <<Ed(2, 1, "supports")>> }

\* <<rep, drep>>: a Frame object; a dict with a Digest object, with a dict
\* digest, and without digest
FrameShapes == { <<"model", "model">>, <<"dict", "model">>, <<"dict", "dict">>, <<"dict", "none">> }

TunedFile ==
    [mtime |-> 1, json |-> "object",
     caps |-> {<<"equity", "min<->hour", 20>>, <<"equity", "hour<->day", 200>>}]

GuardCalls ==
    { [pc |-> "call",
       frame |-> [rep |-> sh[1], nodes |-> ns, edges |-> es,
                  digest |-> IF sh[2] = "none" THEN None ELSE Some(d),
                  drep |-> sh[2], morphs |-> ms, telem |-> t],
       prev |-> pv[1], prep |-> pv[2]]
      : sh \in FrameShapes, ns \in GuardNodeLists, es \in GuardEdgeLists,
        d \in GuardDigests, ms \in MorphBatches, t \in GuardTelems,
        pv \in {<<None, "none">>}
                 \cup {<<Some(q), k>> : q \in GuardPrevs, k \in {"model", "dict"}} }

InitGuard ==
    /\ store = [s \in StreamIds |-> None]
    /\ req = [r \in Req |-> IdleReq]
    /\ accepted = [s \in StreamIds |-> None]
    /\ gcall \in GuardCalls
    /\ gres = NoResult
    /\ pfile \in {None, Some(TunedFile)}
    /\ pcache = InitialCache
    /\ now = StartTime
    /\ flog = <<>>
    /\ sres = NoShimReply
    /\ din = NoInput
    /\ dout = NoOutput

GuardCall ==
    /\ gcall.pc = "call"
    /\ LET loaded == LoadParams(now, pfile, pcache)
       IN /\ gres' = guard_check(gcall.frame, gcall.prev, gcall.prep, loaded.data)
          /\ pcache' = IF GuardLoadsParams(gcall.frame, gcall.prev, gcall.prep)
                         THEN loaded.cache ELSE pcache
    /\ gcall' = [gcall EXCEPT !.pc = "done"]
    /\ UNCHANGED <<din, dout, flog, sres, store, req, accepted, pfile, now>>

NextGuard == GuardCall

SpecGuard == InitGuard /\ [][NextGuard]_vars

(***************************************************************************)
(* guard_check called again and again while data/params.json is written,   *)
(* removed and left to age: scripts/test_tuned_cap.py, and any writer of    *)
(* the file.                                                               *)
(***************************************************************************)
ScriptClaim == Nd(1, "Claim", "equity", "min<->hour")
ScriptCounter == Nd(2, "Counter", "", "")

\* try_case(ds, explained): the frame has telem and nodes and nothing else.
\* The same frames with a digest are what a caller that follows guard_check's
\* docstring passes.
try_case(ds, explained, withDigest) ==
    [rep |-> "dict",
     nodes |-> IF explained THEN <<ScriptClaim, ScriptCounter>> ELSE <<ScriptClaim>>,
     edges |-> <<>>,
     digest |-> IF withDigest THEN Some(Dg(1, 0, 0, <<0, 1>>, 0)) ELSE None,
     drep |-> IF withDigest THEN "dict" ELSE "none",
     morphs |-> <<>>, telem |-> Tm(Some(ds), None)]

\* main: the five calls try_case(ds, explained)
ScriptCases ==
    { <<28, FALSE>>, <<10, FALSE>>, <<150, TRUE>>, <<25, FALSE>>, <<80, FALSE>> }

TunedFrames == { try_case(c[1], c[2], w) : c \in ScriptCases, w \in BOOLEAN }

\* write_params(cap=0.020)
ScriptCaps == {<<"equity", "min<->hour", 20>>}

\* What a writer can leave in data/params.json: <<json, caps>>
FileContents ==
    { <<"object", ScriptCaps>>, <<"badcaps", {}>>, <<"notobject", {}>>,
      <<"invalid", {}>>, <<"unreadable", {}>> }

InitTuned ==
    /\ store = [s \in StreamIds |-> None]
    /\ req = [r \in Req |-> IdleReq]
    /\ accepted = [s \in StreamIds |-> None]
    /\ gcall = NoCall
    /\ gres = NoResult
    /\ pfile = None
    /\ pcache = InitialCache
    /\ now = StartTime
    /\ flog = <<>>
    /\ sres = NoShimReply
    /\ din = NoInput
    /\ dout = NoOutput

\* write_params: the file is (re)written.  The code only compares mtimes for
\* equality, so the mtime of a write is a stamp later than every mtime that the
\* file or the cache still holds.
WriteParams(c) ==
    /\ LET m == 1 + SetMax({0} \cup (IF IsSome(pfile) THEN {The(pfile).mtime} ELSE {})
                               \cup (IF IsSome(pcache.mtime) THEN {The(pcache.mtime)} ELSE {}))
       IN /\ m <= MaxWrites
          /\ pfile' = Some([mtime |-> m, json |-> c[1], caps |-> c[2]])
    /\ UNCHANGED <<din, dout, flog, sres, store, req, accepted, gcall, gres, pcache, now>>

\* remove_params
RemoveParams ==
    /\ pfile # None
    /\ pfile' = None
    /\ UNCHANGED <<din, dout, flog, sres, store, req, accepted, gcall, gres, pcache, now>>

\* half a TTL goes by
Tick ==
    /\ now + (PARAMS_TTL \div 2) <= StartTime + MaxElapsed
    /\ now' = now + (PARAMS_TTL \div 2)
    /\ UNCHANGED <<din, dout, flog, sres, store, req, accepted, gcall, gres, pfile, pcache>>

\* guard_check(frame): the call records the file and the cache it found
TunedEval(f) ==
    /\ LET loaded == LoadParams(now, pfile, pcache)
       IN /\ gres' = guard_check(f, None, "none", loaded.data)
          /\ pcache' = IF GuardLoadsParams(f, None, "none") THEN loaded.cache ELSE pcache
    /\ gcall' = [pc |-> "done", frame |-> f, prev |-> None, prep |-> "none",
                 file |-> pfile, before |-> pcache]
    /\ UNCHANGED <<din, dout, flog, sres, store, req, accepted, pfile, now>>

NextTuned ==
    \/ \E c \in FileContents : WriteParams(c)
    \/ RemoveParams
    \/ Tick
    \/ \E f \in TunedFrames : TunedEval(f)

SpecTuned == InitTuned /\ [][NextTuned]_vars

(***************************************************************************)
(* The /frame shim: post_frame of src/openline/adapters/fastapi_app.py.    *)
(* A request body is [kind, size, wrapped, frame]: kind says what           *)
(* json.loads makes of the bytes ("object": a JSON object, "array": valid   *)
(* JSON that is not an object, "notjson": no JSON, "empty": no bytes), size *)
(* is len(raw).  The uuid and the timestamp of a log line are left out.     *)
(***************************************************************************)
SHIM_MAX_BYTES == 256000

ShimFrames ==
    { [nodes |-> <<N1, N2>>, edges |-> <<Ed(2, 1, "contradicts")>>, morphs |-> <<>>,
       telem |-> Tm(None, None), digest |-> Some(Dg(1, 0, 1, <<0, 1>>, 0))],
      [nodes |-> <<N1>>, edges |-> <<>>, morphs |-> <<>>,
       telem |-> Tm(Some(150), None), digest |-> Some(Dg(1, 9, 0, <<9, 1>>, 0))],
      [nodes |-> <<N1>>, edges |-> <<>>, morphs |-> <<>>,
       telem |-> Tm(Some(150), None), digest |-> None] }

\* frame = {}: every key absent
EmptyShimFrame ==
    [nodes |-> <<>>, edges |-> <<>>, morphs |-> <<>>, telem |-> Tm(None, None), digest |-> None]

ShimBodies ==
    { [kind |-> "object", size |-> n, wrapped |-> w, frame |-> f]
        : n \in {200, SHIM_MAX_BYTES, SHIM_MAX_BYTES + 1}, w \in BOOLEAN, f \in ShimFrames }
    \cup { [kind |-> k, size |-> n, wrapped |-> FALSE, frame |-> EmptyShimFrame]
             : k \in {"notjson", "array"}, n \in {10, SHIM_MAX_BYTES + 1} }
    \cup { [kind |-> "empty", size |-> 0, wrapped |-> FALSE, frame |-> EmptyShimFrame] }

\* lines 37-51: the frame the shim works on ("crash": body.get on a JSON value
\* that is not an object raises AttributeError)
ShimNorm(body) ==
    CASE body.kind = "object" -> Some(body.frame)
      [] body.kind = "array" -> None
      [] OTHER -> Some(EmptyShimFrame)

\* lines 18-23 and 64-67: the response
ShimReply(status, ok, error, norm) ==
    [status |-> status, ok |-> ok, accepted |-> ok, error |-> error,
     counts |-> <<Len(norm.nodes), Len(norm.edges)>>]

\* POST /frame on the shim.  logfails: the write of the log line raises (the
\* code passes over it).
ShimPostFrame(body, logfails) ==
    /\ Len(flog) < MaxLog
    /\ LET norm == ShimNorm(body)
           reply ==
               IF body.size > SHIM_MAX_BYTES
                 THEN ShimReply(200, FALSE, "payload too large", EmptyShimFrame)
               ELSE IF norm = None
                 THEN ShimReply(500, FALSE, "AttributeError", EmptyShimFrame)
               ELSE ShimReply(200, TRUE, "", The(norm))
           logged == reply.ok /\ ~logfails
       IN /\ flog' = IF logged THEN Append(flog, The(norm)) ELSE flog
          /\ sres' = [pc |-> "done", body |-> body, reply |-> reply, logged |-> logged]
    /\ UNCHANGED <<din, dout, store, req, accepted, gcall, gres, pfile, pcache, now>>

InitShim ==
    /\ store = [s \in StreamIds |-> None]
    /\ req = [r \in Req |-> IdleReq]
    /\ accepted = [s \in StreamIds |-> None]
    /\ gcall = NoCall
    /\ gres = NoResult
    /\ pfile = None
    /\ pcache = InitialCache
    /\ now = StartTime
    /\ flog = <<>>
    /\ sres = NoShimReply
    /\ din = NoInput
    /\ dout = NoOutput

NextShim == \E body \in ShimBodies, logfails \in BOOLEAN : ShimPostFrame(body, logfails)

SpecShim == InitShim /\ [][NextShim]_vars

(***************************************************************************)
(* The digest functions and the extractor called directly, once, on        *)
(* arguments drawn from the sets below.                                    *)
(***************************************************************************)
DigestNodeLists == { <<>>, <<N1>>, <<N1, N2>>, <<N1, N2, N3>> }

DigestRels == {"supports", "contradicts", "depends_on", "derives"}

\* edge lists of at most MaxEdges edges between distinct nodes of the list
DigestEdgeLists(nodes) ==
    LET ids == 1..Len(nodes)
        E == {Ed(p[1], p[2], r) : p \in {q \in ids \X ids : q[1] # q[2]}, r \in DigestRels}
    IN UNION {[1..k -> E] : k \in 0..MaxEdges}

\* the graphs on the given node lists
DigestGraphs(nodeLists) ==
    { g \in { [kind |-> "graph", nodes |-> ns, edges |-> es]
                : ns \in nodeLists, es \in DigestEdgeLists(<<N1, N2, N3>>) }
        : g.edges \in DigestEdgeLists(g.nodes) }

\* graphs of more edges, with supports cycles that share edges
CycleGraphs ==
    { [kind |-> "graph", nodes |-> <<N1, N2, N3>>,
       edges |-> <<Ed(1, 2, "supports"), Ed(1, 3, "supports"), Ed(2, 3, "supports"),
                   Ed(3, 1, "supports")>>],
      [kind |-> "graph", nodes |-> <<N1, N2, N3>>,
       edges |-> <<Ed(1, 2, "supports"), Ed(2, 3, "supports"), Ed(3, 1, "supports"),
                   Ed(3, 2, "contradicts")>>] }

Sentences == [sup : BOOLEAN, att : BOOLEAN, asm : BOOLEAN]

\* the texts of at most n sentences
Texts(n) == {[kind |-> "text", sents |-> t] : t \in UNION {[1..k -> Sentences] : k \in 0..n}}

\* Digests for the two gap functions: complete ones, and (for holonomy_delta,
\* which reads dicts) dicts that lack keys, {} among them.
PairDigests ==
    { Dg(1, 0, 0, <<1, 1>>, 0), Dg(4, 0, 0, <<1, 1>>, 0), Dg(2, 0, 3, <<1, 3>>, 1),
      Dg(1, 5, 1, <<6, 1>>, 0), Dg(0, 0, 0, <<0, 1>>, 0), Dg(1, 1, 2, <<3, 2>>, 2) }

PartialDigests == { <<>>, [b0 |-> 2], [x_frontier |-> 1, s_over_c |-> <<1, 2>>] }

DigestPairs ==
    { [kind |-> "pair", a |-> a, b |-> b]
        : a \in PairDigests \cup PartialDigests, b \in PairDigests \cup PartialDigests }

InitDigest ==
    /\ store = [s \in StreamIds |-> None]
    /\ req = [r \in Req |-> IdleReq]
    /\ accepted = [s \in StreamIds |-> None]
    /\ gcall = NoCall
    /\ gres = NoResult
    /\ pfile = None
    /\ pcache = InitialCache
    /\ now = StartTime
    /\ flog = <<>>
    /\ sres = NoShimReply
    /\ din \in DigestGraphs(DigestNodeLists) \cup CycleGraphs \cup Texts(MaxSents) \cup DigestPairs
    /\ dout = NoOutput

\* compute_digest(nodes, edges)
ComputeDigest ==
    /\ din.kind = "graph" /\ dout = NoOutput
    /\ dout' = [kind |-> "digest", digest |-> Some(compute_digest(din.nodes, din.edges))]
    /\ UNCHANGED <<store, req, accepted, gcall, gres, pfile, pcache, now, flog, sres, din>>

\* build_frame(text, None)
BuildFrame ==
    /\ din.kind = "text" /\ dout = NoOutput
    /\ dout' = [kind |-> "frame"] @@ build_frame(din.sents)
    /\ UNCHANGED <<store, req, accepted, gcall, gres, pfile, pcache, now, flog, sres, din>>

\* holonomy_gap on Digest objects (complete digests) and holonomy_delta on
\* dicts, each called on (a, b), (b, a) and (a, a)
HolonomyGaps ==
    /\ din.kind = "pair" /\ dout = NoOutput
    /\ LET full == din.a \in PairDigests /\ din.b \in PairDigests
       IN dout' = [kind |-> "gaps",
                   gap_ab |-> IF full THEN Some(holonomy_gap(din.a, din.b)) ELSE None,
                   gap_ba |-> IF full THEN Some(holonomy_gap(din.b, din.a)) ELSE None,
                   gap_aa |-> IF full THEN Some(holonomy_gap(din.a, din.a)) ELSE None,
                   delta_ab |-> holonomy_delta(din.a, din.b),
                   delta_ba |-> holonomy_delta(din.b, din.a),
                   delta_aa |-> holonomy_delta(din.a, din.a)]
    /\ UNCHANGED <<store, req, accepted, gcall, gres, pfile, pcache, now, flog, sres, din>>

NextDigest ==
    \/ ComputeDigest
    \/ BuildFrame
    \/ HolonomyGaps

SpecDigest == InitDigest /\ [][NextDigest]_vars

(***************************************************************************)
(* build_frame_from_text called directly (as tests/test_guards_v02.py      *)
(* calls it), once, on a text and a prior digest drawn from the sets       *)
(* below.                                                                  *)
(***************************************************************************)
TextSentences == [contra : BOOLEAN, support : BOOLEAN, cite : BOOLEAN]

\* every text of at most n sentences
ShortTexts(n) == UNION {[1..k -> TextSentences] : k \in 0..n}

\* longer texts, of more than n and at most m sentences, of sentences with no
\* marker or a contradiction marker only
LongSentences == {s \in TextSentences : ~s.cite /\ ~s.support}
LongTexts(n, m) == UNION {[1..k -> LongSentences] : k \in (n + 1)..m}

\* the dense texts of at most n sentences: a first sentence and sentences with
\* a support or citation marker, none with a contradiction marker
DenseTexts(n) ==
    {t \in ShortTexts(n) : /\ Len(t) >= 2
                           /\ \A i \in DOMAIN t : ~t[i].contra
                           /\ \A i \in 2..Len(t) : t[i].support \/ t[i].cite}

\* prev_digest: None, {}, the two of tests/test_guards_v02.py, and one that is
\* one contradiction away from the digest of a claim with a contradiction
TextPrevs ==
    { None, Some(<<>>), Some(Dg(1, 0, 0, <<1, 1>>, 1)), Some(Dg(1, 0, 3, <<2, 5>>, 2)),
      Some(Dg(1, 0, 2, <<0, 1>>, 1)) }

\* every text without prior digest; the dense texts and the texts of less than
\* n sentences with every prior digest
TextCalls(n, m) ==
    { [kind |-> "text_prev", sents |-> t, prev |-> None] : t \in ShortTexts(n) \cup LongTexts(n, m) }
    \cup { [kind |-> "text_prev", sents |-> t, prev |-> p]
             : t \in DenseTexts(n) \cup ShortTexts(n - 1), p \in TextPrevs }

InitText ==
    /\ store = [s \in StreamIds |-> None]
    /\ req = [r \in Req |-> IdleReq]
    /\ accepted = [s \in StreamIds |-> None]
    /\ gcall = NoCall
    /\ gres = NoResult
    /\ pfile = None
    /\ pcache = InitialCache
    /\ now = StartTime
    /\ flog = <<>>
    /\ sres = NoShimReply
    /\ din \in TextCalls(MaxShortSents, MaxLongSents)
    /\ dout = NoOutput

\* build_frame_from_text(text, "t", 1, prev_digest)
BuildFrameFromText ==
    /\ din.kind = "text_prev" /\ dout = NoOutput
    /\ dout' = [kind |-> "frame_v02"] @@ build_frame_from_text(din.sents, din.prev)
    /\ UNCHANGED <<store, req, accepted, gcall, gres, pfile, pcache, now, flog, sres, din>>

NextText == BuildFrameFromText

SpecText == InitText /\ [][NextText]_vars

(***************************************************************************)
(* Properties.                                                             *)
(***************************************************************************)
Done(r) == req[r].pc = "done"
SameButDigest(f, g) ==
    /\ f.stream_id = g.stream_id /\ f.nodes = g.nodes /\ f.edges = g.edges
    /\ f.morphs = g.morphs /\ f.telem = g.telem
Called == gcall.pc = "done"
HasDigest == Called /\ IsSome(gcall.frame.digest)
\* the frame's x_frontier is lower than the prior digest's
FrontierDrops ==
    /\ HasDigest /\ IsSome(gcall.prev)
    /\ The(gcall.frame.digest).x_frontier < The(gcall.prev).x_frontier
BatchHas(ops, types) ==
    \E i \in DOMAIN gcall.frame.morphs :
        gcall.frame.morphs[i].op \in ops /\ gcall.frame.morphs[i].ntype \in types
BatchDeletes == BatchHas({"del_node", "del_edge"}, {"", "Assumption", "Counter", "Evidence"})

\* C1: when post_frame answers a request with the 422 of a guard_check
\* validation failure, that step leaves _LAST_DIGEST exactly as it was, and the
\* request has written no entry.
C1_RejectionLeavesStore ==
    [][\A r \in Req :
          (req[r].pc = "read" /\ req'[r].pc = "done" /\ req'[r].status = 422)
              => (store' = store /\ req'[r].wrote = None)]_vars

C1_Witness ==
    \E r \in Req : Done(r) /\ req[r].status = 422 /\ req[r].detail = "cycle"
                   /\ store[The(req[r].frame).stream_id] = None

C3_AtomicPerStream ==
    \A r1, r2 \in Req :
        (r1 # r2 /\ req[r1].pc = "read" /\ req[r2].pc = "read"
         /\ The(req[r1].frame).stream_id = The(req[r2].frame).stream_id)
            => req[r1].d_prev # req[r2].d_prev

\* what the client of a finished request observes, and what the request wrote
Outcome(r) == <<req[r].status, req[r].reply, req[r].wrote>>

\* C4 (as claimed): two answered frames that differ only in their digest field,
\* looked up against the same store entry, have the same outcome.
C4_DigestNeverMatters ==
    \A r1, r2 \in Req :
        (Done(r1) /\ Done(r2) /\ SameButDigest(The(req[r1].frame), The(req[r2].frame))
         /\ req[r1].d_prev = req[r2].d_prev)
            => Outcome(r1) = Outcome(r2)

\* C4 (amended): two answered frames that differ only in their digest field,
\* both digests having non-negative fields, looked up against the same store
\* entry, have the same status, reply and store effect; and the digest the
\* guards saw is the one recomputed from nodes/edges.
C4_ValidDigestNeverMatters ==
    /\ \A r1, r2 \in Req :
        (Done(r1) /\ Done(r2) /\ SameButDigest(The(req[r1].frame), The(req[r2].frame))
         /\ req[r1].d_prev = req[r2].d_prev
         /\ \A r \in {r1, r2} :
                /\ The(req[r].frame).digest.s_over_c[1] >= 0
                /\ \A k \in {"b0", "cycle_plus", "x_frontier", "depth"} :
                      The(req[r].frame).digest[k] >= 0)
            => Outcome(r1) = Outcome(r2)
    /\ \A r \in Req :
        (Done(r) /\ IsSome(req[r].seen))
            => The(req[r].seen) = compute_digest(The(req[r].frame).nodes, The(req[r].frame).edges)

\* the same graph sent with an honest digest and with one claiming cycle_plus
\* over the cap, both answered after the guard ran
C4_Witness ==
    \E r1, r2 \in Req :
        /\ Done(r1) /\ Done(r2) /\ SameButDigest(The(req[r1].frame), The(req[r2].frame))
        /\ The(req[r1].frame).digest.cycle_plus = 0
        /\ The(req[r2].frame).digest.cycle_plus > CYCLE_PLUS_CAP
        /\ IsSome(req[r1].seen) /\ IsSome(req[r2].seen)
        /\ The(req[r2].seen).cycle_plus <= CYCLE_PLUS_CAP

Malformed(f) ==
    \/ \E i, j \in DOMAIN f.nodes : i # j /\ f.nodes[i].id = f.nodes[j].id
    \/ \E i \in DOMAIN f.edges :
          \/ f.edges[i].src = f.edges[i].dst
          \/ \A k \in DOMAIN f.nodes : f.nodes[k].id # f.edges[i].src
          \/ \A k \in DOMAIN f.nodes : f.nodes[k].id # f.edges[i].dst

\* C5: a frame with a duplicate node id, a dangling edge or a self-loop is
\* answered 422 without its digest being recomputed, without any guard having
\* seen it, and without a store write; it is never accepted.
C5_MalformedRejectedEarly ==
    \A r \in Req :
        (req[r].pc # "idle" /\ Malformed(The(req[r].frame)))
            => /\ Done(r) /\ req[r].status = 422 /\ req[r].detail = "shape"
               /\ req[r].d_now = None /\ req[r].seen = None /\ req[r].wrote = None
               /\ req[r].reply = None

\* a self-loop frame and a frame with a duplicate id or a dangling edge, each
\* with a digest that would pass, have been answered
C5_Witness ==
    \E r1, r2 \in Req :
        /\ Done(r1) /\ \E i \in DOMAIN The(req[r1].frame).edges :
                           The(req[r1].frame).edges[i].src = The(req[r1].frame).edges[i].dst
        /\ Done(r2) /\ NoSelfLoop(The(req[r2].frame).edges) /\ Malformed(The(req[r2].frame))
        /\ \A r \in {r1, r2} : The(req[r].frame).digest.b0 >= 0 /\ req[r].status = 422

\* What each of the four checks does on the call's arguments, in the order of
\* guard_check's docstring.  Check 4 reads the params that _load_params returned,
\* which the cache holds once check 4 was reached.
CheckOutcomes ==
    <<CycleCheck(gcall.frame), FrontierCheck(gcall.frame, gcall.prev),
      HolonomyCheck(gcall.frame, gcall.prev, gcall.prep),
      ScaleCheck(gcall.frame, pcache.data)>>
CheckNames == <<"cycle", "frontier", "holonomy", "scale">>
NotPassing == {i \in 1..4 : CheckOutcomes[i] # "pass"}

\* C6: guard_check reports one failure, that of the first check, in the order
\* cycle cap, frontier, holonomy, drift, that does not pass: its validation
\* failure, or the error its code raises; it returns only if the four pass.
C6_FirstFailingCheckWins ==
    HasDigest =>
        LET first == {i \in 1..4 : CheckOutcomes[i] # "pass"
                                    /\ \A j \in 1..(i - 1) : CheckOutcomes[j] = "pass"}
        IN /\ first = {} => gres.kind = "ok"
           /\ \A i \in first :
                 gres.kind = IF CheckOutcomes[i] = "fail" THEN CheckNames[i]
                             ELSE "AttributeError"

\* all four checks fail on the same mapping frame, and the cycle cap is reported
C6_Witness ==
    /\ HasDigest /\ gcall.frame.rep = "dict" /\ gres.kind = "cycle"
    /\ FrontierDrops /\ BatchDeletes /\ ~BatchHas({"add_node"}, {"Assumption", "Counter"})
    /\ gcall.frame.drep = "model" /\ gcall.prep = "model"
    /\ FracGt(holonomy_gap(The(gcall.prev), The(gcall.frame.digest)), DELTA_HOL_CAP)
    /\ gcall.frame.telem.delta_scale = Some(150) /\ gcall.frame.nodes = <<N1>>
    /\ gcall.frame.edges = <<>> /\ gcall.frame.telem.tol = None

\* C7: a digest with cycle_plus over the cap is rejected with the cycle failure,
\* which names the cap, whatever the other arguments are; cycle_plus equal to the
\* cap is not rejected by this check.
C7_CycleCapRejects ==
    HasDigest =>
        /\ The(gcall.frame.digest).cycle_plus > 4
              => gres.kind = "cycle" /\ gres.cap = 4
                 /\ gres.val = <<The(gcall.frame.digest).cycle_plus, 1>>
        /\ The(gcall.frame.digest).cycle_plus <= 4 => gres.kind # "cycle"

\* cycle_plus = 5 is rejected although a resolver is added and the drift is
\* explained
C7_Witness ==
    /\ HasDigest /\ The(gcall.frame.digest).cycle_plus = 5 /\ gres.kind = "cycle"
    /\ BatchHas({"add_node"}, {"Counter"}) /\ gcall.frame.telem.tol = Some(0)
    /\ IsSome(gcall.prev)

\* C8: prior digest, lower x_frontier, a del_node/del_edge in the batch, no
\* add_node of Assumption/Counter, cycle cap passed: guard_check does not
\* return; on a mapping frame it raises the frontier failure.
C8_DeletionOnlyRejected ==
    (FrontierDrops /\ BatchDeletes /\ ~BatchHas({"add_node"}, {"Assumption", "Counter"})
     /\ The(gcall.frame.digest).cycle_plus <= CYCLE_PLUS_CAP)
        => /\ gres.kind # "ok"
           /\ gcall.frame.rep = "dict" => gres.kind = "frontier"

C8_Witness ==
    /\ FrontierDrops /\ BatchDeletes /\ BatchHas({"add_node"}, {"Evidence"})
    /\ gcall.frame.rep = "dict" /\ gres.kind = "frontier"

\* C9 (as claimed): a frame with lower x_frontier than the prior digest whose
\* batch adds an Assumption node is accepted (stated for mapping frames, the
\* ones guard_check reads without error).
C9_ResolverAlwaysAccepted ==
    (FrontierDrops /\ BatchHas({"add_node"}, {"Assumption"}) /\ gcall.frame.rep = "dict")
        => gres.kind = "ok"

\* C9 (amended): such a frame is never rejected by the frontier check or the
\* holonomy check, deletions in the batch or not; a mapping frame of this kind
\* is accepted exactly when cycle_plus is within the cap and the drift check
\* passes.
C9_ResolverPassesFrontier ==
    (FrontierDrops /\ BatchHas({"add_node"}, {"Assumption"}))
        => /\ gres.kind \notin {"frontier", "holonomy"}
           /\ gcall.frame.rep = "dict"
                => (gres.kind = "ok" <=>
                        /\ The(gcall.frame.digest).cycle_plus <= CYCLE_PLUS_CAP
                        /\ ScaleCheck(gcall.frame, pcache.data) = "pass")

C9_Witness ==
    /\ FrontierDrops /\ BatchHas({"add_node"}, {"Assumption"}) /\ BatchDeletes
    /\ gcall.frame.rep = "dict" /\ gres.kind = "ok"
    /\ gcall.frame.drep = "model" /\ gcall.prep = "model"
    /\ FracGt(holonomy_gap(The(gcall.prev), The(gcall.frame.digest)), DELTA_HOL_CAP)

\* C10 (as claimed): every transition guard_check accepts in which x_frontier
\* is lower than in the prior digest has an add_node of Assumption/Counter in
\* its batch.
C10_NoSilentErasure ==
    (FrontierDrops /\ gres.kind = "ok") => BatchHas({"add_node"}, {"Assumption", "Counter"})

\* C10 (amended): ... has an add_node of Assumption/Counter in its batch, or
\* no del_node/del_edge in it.
C10_NoDeclaredErasure ==
    (FrontierDrops /\ gres.kind = "ok")
        => (BatchHas({"add_node"}, {"Assumption", "Counter"}) \/ ~BatchDeletes)

C10_Witness ==
    /\ FrontierDrops /\ gres.kind = "ok" /\ BatchDeletes
    /\ BatchHas({"add_node"}, {"Assumption", "Counter"})

\* both digests of the call are Digest objects, as the ones post_frame stores
\* and recomputes
ObjectDigests ==
    /\ HasDigest /\ IsSome(gcall.prev) /\ gcall.frame.drep = "model" /\ gcall.prep = "model"
\* the L1 distance between the prior digest and the frame's digest
Gap == holonomy_gap(The(gcall.prev), The(gcall.frame.digest))
AddsResolver == BatchHas({"add_node"}, {"Assumption", "Counter"})

\* C11: with a prior digest at L1 distance over 2 from the frame's digest and no
\* add_node of Assumption/Counter in the batch, guard_check does not return (on
\* a mapping frame that passed checks 1 and 2 it raises the holonomy failure,
\* which carries the distance); with such an add_node, or with a distance of at
\* most 2 (2 itself included), the holonomy failure is never raised.
C11_HolonomySpikeRejected ==
    ObjectDigests =>
        /\ (FracGt(Gap, 2) /\ ~AddsResolver)
              => /\ gres.kind # "ok"
                 /\ (gcall.frame.rep = "dict" /\ CycleCheck(gcall.frame) = "pass"
                      /\ FrontierCheck(gcall.frame, gcall.prev) = "pass")
                        => (gres.kind = "holonomy" /\ gres.val = Gap /\ gres.cap = 2)
        /\ AddsResolver => gres.kind # "holonomy"
        /\ ~FracGt(Gap, 2) => gres.kind # "holonomy"

\* a distance of exactly 3 and no resolver: rejected by the holonomy check
C11_Witness ==
    /\ ObjectDigests /\ Gap = <<3, 1>> /\ ~AddsResolver /\ gcall.frame.rep = "dict"
    /\ gres.kind = "holonomy"

\* the four guard rules, read on the mapping with the content of the frame, accept it
RulesAccept(r) ==
    guard_check([GuardFrame(The(req[r].frame), The(req[r].d_now)) EXCEPT !.rep = "dict"],
                req[r].d_prev, "model", pcache.data).kind = "ok"

\* C12 (as claimed): every answered frame that the guard rules accept gets a
\* reply whose delta_hol is the L1 distance between the digest the store held
\* for its stream and the recomputed digest, 0 when the store held none.
C12_ReplyCarriesGap ==
    \A r \in Req :
        (Done(r) /\ IsSome(req[r].d_now) /\ RulesAccept(r))
            => /\ IsSome(req[r].reply)
               /\ The(req[r].reply).delta_hol =
                     IF req[r].d_prev = None THEN <<0, 1>>
                     ELSE holonomy_gap(The(req[r].d_prev), The(req[r].d_now))

\* <<asset_class, cadence_pair>> of the frame's first Claim node
ClaimKey == ClaimAttrs(gcall.frame.nodes)
\* the params file holds no tuned cap for that asset and pair
NoTunedEntry ==
    pfile = None \/ \A c \in The(pfile).caps : <<c[1], c[2]>> # ClaimKey
\* per-asset base cap times the pair multiplier
BaseTimesPair == PairCap(ClaimKey[2], ASSET_CAPS(ClaimKey[1]))
HasNode(types) == \E i \in DOMAIN gcall.frame.nodes : gcall.frame.nodes[i].type \in types
Unexplained ==
    /\ ~HasNode({"Counter", "Assumption"})
    /\ \A i \in DOMAIN gcall.frame.edges :
          gcall.frame.edges[i].rel \notin {"contradicts", "supports"}
    /\ (gcall.frame.telem.tol = None \/ The(gcall.frame.telem.tol) < 0)
ChecksBeforeScalePass ==
    /\ CycleCheck(gcall.frame) = "pass"
    /\ FrontierCheck(gcall.frame, gcall.prev) = "pass"
    /\ HolonomyCheck(gcall.frame, gcall.prev, gcall.prep) = "pass"

\* C13: with no tuned cap for the first Claim node's (asset, pair), a frame
\* whose delta_scale is over base cap times pair multiplier and that has no
\* Counter/Assumption node, no contradicts/supports edge and no non-negative
\* tolerance is not accepted, and when checks 1-3 pass its failure is the drift
\* failure naming that cap; a mapping frame with a Counter node that passes
\* checks 1-3 is accepted whatever its delta_scale.  For equity with the 1.2
\* pair the cap is 0.036: 0.150 is rejected, 0.036 is not.
C13_UnexplainedDriftRejected ==
    (HasDigest /\ NoTunedEntry) =>
        /\ (DeltaScale(gcall.frame) > BaseTimesPair /\ Unexplained)
              => /\ gres.kind # "ok"
                 /\ (gcall.frame.rep = "dict" /\ ChecksBeforeScalePass)
                        => (gres.kind = "scale" /\ gres.cap = BaseTimesPair
                            /\ gres.val = <<DeltaScale(gcall.frame), 1>>)
        /\ (gcall.frame.rep = "dict" /\ HasNode({"Counter"}) /\ ChecksBeforeScalePass)
              => gres.kind = "ok"
        /\ ClaimKey = <<"equity", "hour<->day">>
              => /\ (DeltaScale(gcall.frame) = 150 /\ Unexplained) => gres.kind # "ok"
                 /\ (DeltaScale(gcall.frame) = 36 /\ gcall.frame.rep = "dict"
                      /\ ChecksBeforeScalePass) => gres.kind = "ok"

\* delta_scale 0.150 on equity with the 1.2 pair, nothing that explains it:
\* rejected with cap 0.036
C13_Witness ==
    /\ HasDigest /\ NoTunedEntry /\ gcall.frame.nodes = <<N1>> /\ Unexplained
    /\ DeltaScale(gcall.frame) = 150 /\ gres.kind = "scale" /\ gres.cap = 36

\* the last call was made on the frame try_case(ds, explained, withDigest)
Tried(ds, explained, withDigest) ==
    gcall.pc = "done" /\ gcall.frame = try_case(ds, explained, withDigest)
\* ... while the file held the tuned cap 0.020 for (equity, min<->hour)
TunedInForce ==
    /\ gcall.pc = "done" /\ IsSome(gcall.file)
    /\ The(gcall.file).json = "object" /\ The(gcall.file).caps = ScriptCaps
\* ... while there was no file
FileAbsent == gcall.pc = "done" /\ gcall.file = None

\* C14 (as claimed): on the frame made only of the Claim node (equity,
\* min<->hour) and telem.delta_scale, with the tuned cap 0.020 in the file
\* guard_check returns at 0.010, raises the drift failure at 0.028 and returns
\* at 0.150 with a Counter node; with the file removed it returns at 0.025 and
\* raises the drift failure at 0.080.
C14_TunedCapDecides ==
    /\ TunedInForce =>
          /\ Tried(10, FALSE, FALSE) => gres.kind = "ok"
          /\ Tried(28, FALSE, FALSE) => gres.kind = "scale"
          /\ Tried(150, TRUE, FALSE) => gres.kind = "ok"
    /\ FileAbsent =>
          /\ Tried(25, FALSE, FALSE) => gres.kind = "ok"
          /\ Tried(80, FALSE, FALSE) => gres.kind = "scale"

\* The same expectations hold once the frame carries a digest.
TunedCapDecidesWithDigest ==
    /\ TunedInForce =>
          /\ Tried(10, FALSE, TRUE) => gres.kind = "ok"
          /\ Tried(28, FALSE, TRUE) => (gres.kind = "scale" /\ gres.cap = 20)
          /\ Tried(150, TRUE, TRUE) => gres.kind = "ok"
    /\ FileAbsent =>
          /\ Tried(25, FALSE, TRUE) => gres.kind = "ok"
          /\ Tried(80, FALSE, TRUE) => (gres.kind = "scale" /\ gres.cap = 30)

\* the last call was made on a frame with a digest (so that check 4 is reached on
\* these frames, which have no prior digest and cycle_plus 0)
EvalReachedCaps == gcall.pc = "done" /\ IsSome(gcall.frame.digest)

\* C15 (as claimed): when the file is missing, unreadable, invalid JSON, not a
\* JSON object, or an object whose scale_caps is not the nested mapping,
\* guard_check gives the verdict it gives with no overrides.
C15_SourceNeverFails ==
    (EvalReachedCaps /\ (gcall.file = None \/ The(gcall.file).json # "object"))
        => gres = guard_check(gcall.frame, None, "none", NoCaps)

\* C16 (as claimed): when the cache holds caps of an earlier successful load
\* and the file now cannot be read or parsed, guard_check decides with the caps
\* the cache held.
C16_StaleCapsKept ==
    (EvalReachedCaps /\ gcall.before.data.caps # {} /\ IsSome(gcall.file)
     /\ The(gcall.file).json \in {"invalid", "unreadable"})
        => gres = guard_check(gcall.frame, None, "none", gcall.before.data)

\* the digest of the request's frame breaks the cycle cap: a guard violation
ShimGuardViolation ==
    /\ sres.body.kind = "object" /\ IsSome(sres.body.frame.digest)
    /\ The(sres.body.frame.digest).cycle_plus > CYCLE_PLUS_CAP

\* C17 (as claimed): the endpoint answers a body that is not JSON with 400, a
\* body of more than 256,000 bytes with 413 and a guard violation with 422 and
\* a reason; none of them is answered ok = true or leaves a trace on the server.
C17_FailuresClassified ==
    sres.pc = "done" =>
        /\ sres.body.size > 256000
              => (sres.reply.status = 413 /\ ~sres.reply.ok /\ ~sres.logged)
        /\ (sres.body.size <= 256000 /\ sres.body.kind \in {"notjson", "empty"})
              => (sres.reply.status = 400 /\ ~sres.reply.ok /\ ~sres.logged)
        /\ (sres.body.size <= 256000 /\ ShimGuardViolation)
              => (sres.reply.status = 422 /\ sres.reply.error # "" /\ ~sres.reply.ok
                  /\ ~sres.logged)

\* What the shim does: it never answers 400, 413 or 422; a body over the cap is
\* refused (ok = false, nothing logged) under status 200; every other body that
\* does not crash it is accepted.
ShimNeverClassifies ==
    sres.pc = "done" =>
        /\ sres.reply.status \in {200, 500}
        /\ sres.body.size > 256000 => (~sres.reply.ok /\ ~sres.logged /\ sres.reply.status = 200)
        /\ (sres.body.size <= 256000 /\ sres.body.kind # "array") => sres.reply.ok

\* what the claim gives for a graph of n nodes and no edges
EdgelessDigest(n) == Dg(n, 0, 0, <<0, 1>>, 0)

\* C18 (as claimed): for a graph with no edges, the digest functions return
\* b0 = number of nodes and 0 in the four other fields, and do not fail:
\* compute_digest, and build_frame on a text that yields no edge.
C18_EdgelessDigest ==
    /\ (dout.kind = "digest" /\ din.edges = <<>>)
          => dout.digest = Some(EdgelessDigest(Len(din.nodes)))
    /\ (dout.kind = "frame" /\ dout.edges = <<>>)
          => dout.digest = Some(EdgelessDigest(Len(dout.nodes)))
    /\ dout.kind \in {"digest", "frame"} => dout.digest # None

\* compute_digest alone does as claimed.
EdgelessComputeDigest ==
    dout.kind = "digest" =>
        /\ dout.digest # None
        /\ din.edges = <<>> => dout.digest = Some(EdgelessDigest(Len(din.nodes)))

\* the number of edges of the list with the given rel
LiteralCount(edges, rel) == Cardinality({i \in DOMAIN edges : edges[i].rel = rel})
\* two edges of the list join the same ordered pair of nodes
ParallelEdges(edges) ==
    \E i, j \in DOMAIN edges :
        i # j /\ edges[i].src = edges[j].src /\ edges[i].dst = edges[j].dst

\* C19 (as claimed): compute_digest returns x_frontier = the number of
\* contradicts edges in the edge list, and s_over_c = the number of supports
\* edges in the list, divided by x_frontier when that is not 0.
C19_FrontierIsLiteralCount ==
    dout.kind = "digest" =>
        LET x == LiteralCount(din.edges, "contradicts")
            sup == LiteralCount(din.edges, "supports")
        IN /\ The(dout.digest).x_frontier = x
           /\ The(dout.digest).s_over_c = Frac(sup, IF x = 0 THEN 1 ELSE x)

\* It does so on the edge lists that have no two edges on the same ordered pair.
FrontierCountWithoutParallelEdges ==
    (dout.kind = "digest" /\ ~ParallelEdges(din.edges))
        => LET x == LiteralCount(din.edges, "contradicts")
               sup == LiteralCount(din.edges, "supports")
           IN /\ The(dout.digest).x_frontier = x
              /\ The(dout.digest).s_over_c = Frac(sup, IF x = 0 THEN 1 ELSE x)

\* C20: holonomy_gap and holonomy_delta give the same value on (A, B) and on
\* (B, A), and 0 on (A, A).
C20_GapSymmetric ==
    dout.kind = "gaps" =>
        /\ dout.gap_ab = dout.gap_ba
        /\ dout.gap_aa \in {None, Some(<<0, 1>>)}
        /\ dout.delta_ab = dout.delta_ba
        /\ dout.delta_aa = <<0, 1>>

\* two different digests at distance 3, for both functions
C20_Witness ==
    /\ dout.kind = "gaps" /\ din.a # din.b
    /\ dout.gap_ab = Some(<<3, 1>>) /\ dout.gap_ba = Some(<<3, 1>>)
    /\ dout.delta_ab = <<3, 1>> /\ dout.gap_aa = Some(<<0, 1>>)

\* the supports edges of an edge list, in order
SupportsOnly(edges) == SelectSeq(edges, LAMBDA e : e.rel = "supports")

\* C21 (as claimed): cycle_plus is the number of edges to a node in progress
\* that a three-colour depth-first search of the supports edges meets, started
\* from every node not yet visited: for compute_digest, and for build_frame.
C21_CyclePlusIsSupportsBackEdges ==
    /\ dout.kind = "digest"
          => The(dout.digest).cycle_plus = count_cycles(din.nodes, SupportsOnly(din.edges))
    /\ (dout.kind = "frame" /\ dout.digest # None)
          => The(dout.digest).cycle_plus = count_cycles(dout.nodes, SupportsOnly(dout.edges))

Built == dout.kind = "frame_v02"
NoPriorDigest == din.prev = None \/ din.prev = Some(<<>>)
\* the number of nodes of the built frame with the given type
NodesOfType(type) == Cardinality({k \in DOMAIN dout.nodes : dout.nodes[k].type = type})
\* the number of edges of the built frame with the given rel
EdgesOfRel(rel) == Cardinality({k \in DOMAIN dout.edges : dout.edges[k].rel = rel})
\* the text of the dense scenario: four sentences, the second and the fourth
\* with a support marker, the third the one with a citation marker, none with
\* a contradiction marker
DenseScenario ==
    /\ Len(din.sents) = 4
    /\ \A i \in 1..4 : ~din.sents[i].contra
    /\ din.sents[2].support /\ ~din.sents[2].cite
    /\ din.sents[3].cite
    /\ din.sents[4].support /\ ~din.sents[4].cite
\* a fraction is at least 0.6
AtLeastSixTenths(f) == 5 * f[1] >= 3 * f[2]

\* C22: on the text of the dense scenario and no prior digest, the adapter
\* yields at least one Claim node, at least two Evidence nodes, exactly one
\* Source node, x_frontier = 0 and a confidence of at least 0.6.
C22_DenseScenarioExtraction ==
    (Built /\ DenseScenario /\ NoPriorDigest)
        => /\ NodesOfType("Claim") >= 1
           /\ NodesOfType("Evidence") >= 2
           /\ NodesOfType("Source") = 1
           /\ dout.digest.x_frontier = 0
           /\ AtLeastSixTenths(dout.conf)

\* the text of test_dense_good: one Claim, three Evidence, one Source that
\* the third sentence's Evidence cites, confidence 1
C22_Witness ==
    /\ Built /\ DenseScenario /\ din.prev = None
    /\ \A i \in 1..4 : din.sents[i].cite <=> i = 3
    /\ NodesOfType("Claim") = 1 /\ NodesOfType("Evidence") = 3 /\ NodesOfType("Source") = 1
    /\ dout.edges[3] = Ed(3, 4, "cites") /\ dout.conf = <<1, 1>>

\* prev_digest of test_dense_good
DensePrev == Dg(1, 0, 0, <<1, 1>>, 1)

\* C23 (as claimed): on a dense, well-supported text (here: every text of the
\* dense scenario, the text of test_dense_good among them) with the prior
\* digest {b0: 1, cycle_plus: 0, x_frontier: 0, s_over_c: 1.0, depth: 1},
\* build_frame_from_text returns delta_hol below 0.5, x_frontier = 0 and conf
\* of at least 0.6.
C23_DenseTextSmallGap ==
    (Built /\ DenseScenario /\ din.prev = Some(DensePrev))
        => /\ 2 * dout.delta_hol[1] < dout.delta_hol[2]
           /\ dout.digest.x_frontier = 0
           /\ AtLeastSixTenths(dout.conf)

\* the prior digest holds more contradictions than the digest of the built frame
ContradictionsDropped ==
    /\ Built /\ IsSome(din.prev) /\ "x_frontier" \in DOMAIN The(din.prev)
    /\ The(din.prev).x_frontier > dout.digest.x_frontier

\* C24: whenever the prior digest's x_frontier is greater than that of the frame
\* built from the text, the frame has delta_hol of at least 0.5 or x_frontier
\* = 0 (x_frontier is a count: the difference alone adds at least 1 to delta_hol).
C24_ContradictionDropVisible ==
    ContradictionsDropped
        => (2 * dout.delta_hol[1] >= dout.delta_hol[2] \/ dout.digest.x_frontier = 0)

\* a text with one contradiction against a prior digest that differs from the
\* frame's only by holding two: x_frontier = 1 and delta_hol = 1
C24_Witness ==
    /\ ContradictionsDropped /\ dout.digest.x_frontier = 1
    /\ The(din.prev) = [dout.digest EXCEPT !.x_frontier = 2]
    /\ dout.delta_hol = <<1, 1>>

\* sentence i of the text has left a node in the frame
SentenceUsed(i) == \E k \in DOMAIN dout.nodes : dout.nodes[k].label = i
\* sentence i of the text has left a contradicts edge in the frame
SentenceContradicts(i) ==
    \E k \in DOMAIN dout.nodes, e \in DOMAIN dout.edges :
        /\ dout.nodes[k].label = i
        /\ dout.edges[e].src = dout.nodes[k].id /\ dout.edges[e].rel = "contradicts"
\* the number of sentences with a contradiction marker among sentences 2..i
ContraSentencesUpTo(i) == Cardinality({j \in 2..i : din.sents[j].contra})

\* C25: no sentence after the 8th leaves anything in the frame, the frame has
\* at most 4 supports edges and at most 2 contradicts edges, and a sentence
\* leaves a contradicts edge exactly when it is one of the sentences 2..8, has
\* a contradiction marker and fewer than 2 such sentences precede it.
C25_BoundedExtraction ==
    Built =>
        /\ \A i \in DOMAIN din.sents : i > 8 => ~SentenceUsed(i)
        /\ EdgesOfRel("supports") <= 4
        /\ EdgesOfRel("contradicts") <= 2
        /\ \A i \in DOMAIN din.sents :
              SentenceContradicts(i)
                 <=> (2 <= i /\ i <= 8 /\ din.sents[i].contra /\ ContraSentencesUpTo(i - 1) < 2)

\* nine sentences: both caps are reached within the first eight (4 supports
\* edges, 2 contradicts edges, a third contradiction sentence left without edge)
\* and the ninth, a contradiction sentence too, leaves nothing
C25_Witness ==
    /\ Built /\ Len(din.sents) = 9 /\ din.sents[9].contra /\ ~SentenceUsed(9)
    /\ EdgesOfRel("supports") = 4 /\ EdgesOfRel("contradicts") = 2
    /\ ContraSentencesUpTo(8) = 3
    /\ \E i \in 2..8 : din.sents[i].contra /\ ~SentenceUsed(i)

\* C26 (as claimed): every graph that build_frame returns for a text has no
\* edge with src = dst, has both endpoints of every edge among its node ids, and
\* has no node id twice.
C26_BuiltGraphWellFormed ==
    (dout.kind = "frame" /\ dout.digest # None)
        => /\ NoSelfLoop(dout.edges)
           /\ EdgesReferenceNodes(dout.nodes, dout.edges)
           /\ UniqueNodeIds(dout.nodes)

\* st_mtime of the file, None when there is none
MtimeOf(file) == IF IsSome(file) THEN Some(The(file).mtime) ELSE None
\* what a read of the file gives
FileData(file) == IF IsSome(file) THEN ParseParams(The(file)) ELSE NoCaps
\* the step is a guard evaluation that gets as far as the caps (the file and
\* the clock are as before, the frame has a digest)
EvalStep == pfile' = pfile /\ now' = now /\ gcall'.pc = "done" /\ IsSome(gcall'.frame.digest)

\* C27: a guard evaluation made less than the TTL after the last load, with the
\* file's modification time as the cache recorded it, decides on the cached
\* data and leaves the cache untouched; one made when the modification time
\* differs from the recorded one (file rewritten, created or removed) decides
\* on what the file holds now and records it, inside the TTL too.
C27_LazyRefresh ==
    [][EvalStep =>
          /\ (now - pcache.ts < PARAMS_TTL /\ pcache.mtime = MtimeOf(pfile))
                => /\ pcache' = pcache
                   /\ gres' = guard_check(gcall'.frame, None, "none", pcache.data)
          /\ pcache.mtime # MtimeOf(pfile)
                => /\ gres' = guard_check(gcall'.frame, None, "none", FileData(pfile))
                   /\ pcache' = [ts |-> now, mtime |-> MtimeOf(pfile), data |-> FileData(pfile)]]_vars

\* half a TTL after the load of a file with the tuned cap 0.020, the file having
\* been removed since, delta_scale 0.025 is accepted: the evaluation went by
\* the default cap, and the cache now records the absence
C27_Witness ==
    /\ Tried(25, FALSE, TRUE) /\ gres.kind = "ok" /\ gcall.file = None
    /\ gcall.before.data.caps = ScriptCaps /\ IsSome(gcall.before.mtime)
    /\ now - gcall.before.ts = PARAMS_TTL \div 2
    /\ pcache = [ts |-> now, mtime |-> None, data |-> NoCaps]

\* the verdict of guard_check on the plain mapping with the content of the
\* call's frame
MappingVerdict ==
    guard_check([gcall.frame EXCEPT !.rep = "dict"], gcall.prev, gcall.prep,
                LoadParams(now, pfile, pcache).data)

\* C28 (as claimed): on a validated frame model guard_check ends as it does on
\* the mapping with the same content: it returns or raises the validation
\* failure, never another error.
C28_ModelFramesSupported ==
    (HasDigest /\ gcall.frame.rep = "model")
        => /\ gres.kind # "AttributeError"
           /\ gres = MappingVerdict

\* the stream of the frame that request r carries
StreamOf(r) == The(req[r].frame).stream_id

\* C29: the step that looks up the prior digest of a request takes it from the
\* entry of the frame's own stream and writes nothing; the step that answers the
\* request, accepted or not, leaves the entry of every other stream as it was,
\* and its status is that of guard_check on the frame, the recomputed digest,
\* the digest looked up for its own stream and the caps.
C29_StreamsIsolated ==
    [][\A r \in Req :
          /\ (req[r].pc = "idle" /\ req'[r].pc = "read")
                => /\ req'[r].d_prev = store[The(req'[r].frame).stream_id]
                   /\ store' = store
          /\ (req[r].pc = "read" /\ req'[r].pc = "done")
                => /\ \A s \in StreamIds \ {StreamOf(r)} : store'[s] = store[s]
                   /\ req'[r].status =
                         StatusOf(guard_check(GuardFrame(The(req[r].frame), The(req[r].d_now)),
                                              req[r].d_prev, "model", pcache.data))]_vars

\* frames of two different streams have been answered, one refused by the
\* cycle cap and one that passed checks 1-3
C29_Witness ==
    \E r1, r2 \in Req :
        /\ Done(r1) /\ Done(r2) /\ StreamOf(r1) # StreamOf(r2)
        /\ req[r1].detail = "cycle" /\ req[r2].detail = "AttributeError"
        /\ IsSome(req[r1].seen) /\ IsSome(req[r2].seen)

\* C30: every digest the store holds has cycle_plus of at most 4 and no
\* negative field.
C30_StoredDigestsWithinCaps ==
    \A s \in StreamIds :
        IsSome(store[s])
            => (The(store[s]).cycle_plus <= CYCLE_PLUS_CAP /\ ValidDigest(The(store[s])))

\* a frame whose recomputed digest has cycle_plus = 5 has been answered with the
\* cycle failure and its digest is not in the store
C30_Witness ==
    \E r \in Req :
        /\ Done(r) /\ IsSome(req[r].d_now) /\ The(req[r].d_now).cycle_plus = 5
        /\ req[r].status = 422 /\ req[r].wrote = None
        /\ \A s \in StreamIds : store[s] # req[r].d_now

====
